---- MODULE Spec2Model ----
(***************************************************************************)
(* Long-term QARTOD quality control of wave data (src/long_term_tests.py). *)
(*                                                                         *)
(* Representation.                                                         *)
(*   - A float of a series is <<v>> for the number v, or <<>> for NaN.     *)
(*     Numbers are integers: the data of the model are whole units, so     *)
(*     every sum, difference and product of the code is exact.             *)
(*   - A pandas Series / numpy array is a sequence; a boolean mask is a    *)
(*     sequence of BOOLEAN; a DataFrame is a function from column name to  *)
(*     column.                                                             *)
(*   - eps of test_flatline is given in hundredths (1 is 0.01).            *)
(***************************************************************************)
EXTENDS Integers, Sequences, FiniteSets, TLC

VARIABLES
    data,               \* argument of a direct call of one test
    args,               \* the other arguments of that call
    result,             \* the array the call returned
    called,             \* which test was called ("none" before the call)
    df,                 \* run: the input DataFrame
    station_metadata,   \* run: the station metadata Series (key -> value)
    report,             \* run: the Detail Report under construction
    report_clean,       \* run: the Clean Report (empty until projected)
    pidx,               \* run: index in params of the next parameter
    pc                  \* run: position in run

vars == <<data, args, result, called, df, station_metadata, report,
          report_clean, pidx, pc>>

-----------------------------------------------------------------------------
(* Floats with NaN *)

NaN == <<>>
IsNaN(x) == x = <<>>
Num(v) == <<v>>
Abs(n) == IF n < 0 THEN 0 - n ELSE n

\* a - b on floats: NaN when either operand is NaN
FSub(a, b) == IF IsNaN(a) \/ IsNaN(b) THEN NaN ELSE Num(a[1] - b[1])
\* a + b on floats
FAdd(a, b) == IF IsNaN(a) \/ IsNaN(b) THEN NaN ELSE Num(a[1] + b[1])
\* abs(a) on floats
FAbs(a) == IF IsNaN(a) THEN NaN ELSE Num(Abs(a[1]))
\* every comparison with NaN is False
FLt(a, b) == ~IsNaN(a) /\ ~IsNaN(b) /\ a[1] < b[1]
FGt(a, b) == ~IsNaN(a) /\ ~IsNaN(b) /\ a[1] > b[1]
FGe(a, b) == ~IsNaN(a) /\ ~IsNaN(b) /\ a[1] >= b[1]

Rows(s) == 1..Len(s)

\* np.full(data.shape, v)
Full(s, v) == [i \in Rows(s) |-> v]

\* result[mask] = v on a numpy array
SetWhere(arr, mask, v) == [i \in Rows(arr) |-> IF mask[i] THEN v ELSE arr[i]]

\* data.diff(k): the difference with the element k positions before
Diff(s, k) == [i \in Rows(s) |-> IF i - k >= 1 THEN FSub(s[i], s[i - k]) ELSE NaN]

-----------------------------------------------------------------------------
(* test_missing *)

\* Faulty variant: flags the present values instead of the absent ones.
test_missing_inverted(s) ==
    SetWhere(Full(s, 8), [i \in Rows(s) |-> IsNaN(s[i])], 0)

test_missing(s) ==
    SetWhere(Full(s, 8), [i \in Rows(s) |-> ~IsNaN(s[i])], 0)

-----------------------------------------------------------------------------
(* test_mean_stdev *)

RECURSIVE SumOver(_, _)
\* sum of f[i] over the finite set S of indices
SumOver(f, S) ==
    IF S = {} THEN 0
    ELSE LET i == CHOOSE j \in S : TRUE IN f[i] + SumOver(f, S \ {i})

\* positions holding a number (mean and std skip NaN)
Present(s) == {i \in Rows(s) : ~IsNaN(s[i])}
\* data.count()
Count(s) == Cardinality(Present(s))
\* data.sum()
Total(s) == SumOver([i \in Present(s) |-> s[i][1]], Present(s))
\* Count(s) * (s[i] - data.mean()), an integer
Dev(s, i) == Count(s) * s[i][1] - Total(s)
\* Count(s)^2 * (Count(s) - ddof) * data.std(ddof)^2, an integer
SumSqDev(s) == SumOver([i \in Present(s) |-> Dev(s, i) * Dev(s, i)], Present(s))

\* data.std() is NaN for fewer than 2 values (divisor n - 1), data.mean() for none
StdIsNaN(s) == Count(s) < 2

\* data < mean - num_stdevs * stdev for num_stdevs >= 0, both sides scaled by
\* n = Count(s) and squared (S = Total(s), ddof = 1):
\*   n*x - S < -k*n*std  <=>  n*x - S < 0 /\ (n-1)*(n*x - S)^2 > k^2 * SumSqDev
BelowBand(s, i, num_stdevs) ==
    /\ ~IsNaN(s[i])
    /\ ~StdIsNaN(s)
    /\ Dev(s, i) < 0
    /\ (Count(s) - 1) * Dev(s, i) * Dev(s, i) > num_stdevs * num_stdevs * SumSqDev(s)

\* data > mean + num_stdevs * stdev for num_stdevs >= 0
AboveBand(s, i, num_stdevs) ==
    /\ ~IsNaN(s[i])
    /\ ~StdIsNaN(s)
    /\ Dev(s, i) > 0
    /\ (Count(s) - 1) * Dev(s, i) * Dev(s, i) > num_stdevs * num_stdevs * SumSqDev(s)

\* num_stdevs=4, the default, which is what run uses
DefaultNumStdevs == 4

\* Faulty variant: non-strict comparisons with the band.
test_mean_stdev_nonstrict(s, num_stdevs) ==
    LET full_fail == [i \in Rows(s) |->
                        /\ ~IsNaN(s[i])
                        /\ ~StdIsNaN(s)
                        /\ (Count(s) - 1) * Dev(s, i) * Dev(s, i)
                               >= num_stdevs * num_stdevs * SumSqDev(s)]
    IN  SetWhere(Full(s, 4), [i \in Rows(s) |-> ~full_fail[i]], 0)

test_mean_stdev(s, num_stdevs) ==
    LET full_fail == [i \in Rows(s) |->
                        BelowBand(s, i, num_stdevs) \/ AboveBand(s, i, num_stdevs)]
    IN  SetWhere(Full(s, 4), [i \in Rows(s) |-> ~full_fail[i]], 0)

-----------------------------------------------------------------------------
(* test_flatline *)

\* flat_length < 2 is reset to 2
FlatLength(flat_length) == IF flat_length < 2 THEN 2 ELSE flat_length

RECURSIVE SumFlat(_, _, _)
\* sum_flat at position i after the iterations diff_size = 1..k of the loop
SumFlat(s, i, k) ==
    IF k = 0 THEN Num(0)
    ELSE FAdd(SumFlat(s, i, k - 1), FAbs(Diff(s, k)[i]))

\* Faulty variant: the loop runs over range(1, flat_length + 1).
TestFlatOffByOne(s, flat_length, eps) ==
    [i \in Rows(s) |->
        LET sum_flat == SumFlat(s, i, FlatLength(flat_length))
        IN  /\ ~IsNaN(sum_flat)
            /\ 100 * sum_flat[1] < eps * Abs(FlatLength(flat_length) - 1)]

\* _test_flat: sum_flat < eps * abs(flat_length - 1), eps in hundredths
TestFlat(s, flat_length, eps) ==
    [i \in Rows(s) |->
        LET sum_flat == SumFlat(s, i, FlatLength(flat_length) - 1)
        IN  /\ ~IsNaN(sum_flat)
            /\ 100 * sum_flat[1] < eps * Abs(FlatLength(flat_length) - 1)]

\* Faulty variant: suspect is written after fail, so suspect wins where both hold.
test_flatline_suspect_last(s, sus_flat, fail_flat, eps) ==
    SetWhere(SetWhere(Full(s, 0), TestFlat(s, fail_flat, eps), 4),
             TestFlat(s, sus_flat, eps), 3)

test_flatline(s, sus_flat, fail_flat, eps) ==
    LET fail == TestFlat(s, fail_flat, eps)
        suspect == TestFlat(s, sus_flat, eps)
    IN  SetWhere(SetWhere(Full(s, 0), suspect, 3), fail, 4)

\* eps=0.01, the default of test_flatline, which is what run uses
DefaultEps == 1

-----------------------------------------------------------------------------
(* test_feasible_range *)

\* Faulty variant: the two flags of the critical switch exchanged.
test_feasible_range_swapped(s, min_value, max_value, critical) ==
    LET fail == [i \in Rows(s) |->
                    FLt(s[i], Num(min_value)) \/ FGt(s[i], Num(max_value))]
    IN  IF critical THEN SetWhere(Full(s, 0), fail, 3)
                    ELSE SetWhere(Full(s, 0), fail, 4)

test_feasible_range(s, min_value, max_value, critical) ==
    LET fail == [i \in Rows(s) |->
                    FLt(s[i], Num(min_value)) \/ FGt(s[i], Num(max_value))]
    IN  IF critical THEN SetWhere(Full(s, 0), fail, 4)
                    ELSE SetWhere(Full(s, 0), fail, 3)

-----------------------------------------------------------------------------
(* test_rate_of_change *)

\* min(axis=1) of three floats that are all NaN or all numbers
FMin3(a, b, c) ==
    IF IsNaN(a) \/ IsNaN(b) \/ IsNaN(c) THEN NaN
    ELSE Num(IF a[1] <= b[1] /\ a[1] <= c[1] THEN a[1]
             ELSE IF b[1] <= c[1] THEN b[1] ELSE c[1])

\* diff_data['shift'] = diff_data.shift(1)
Shift1(s) == [i \in Rows(s) |-> IF i > 1 THEN s[i - 1] ELSE NaN]

\* Faulty variant: the plain difference, without the two candidates across 0/360.
PlainDifferencing(s) == [i \in Rows(s) |-> FAbs(FSub(s[i], Shift1(s)[i]))]

\* _degree_differencing
DegreeDifferencing(s) ==
    [i \in Rows(s) |->
        LET shift == Shift1(s)[i]
            diff1 == FSub(s[i], shift)
            diff2 == FSub(FAdd(s[i], Num(360)), shift)
            diff3 == FSub(s[i], FAdd(shift, Num(360)))
        IN  FMin3(FAbs(diff1), FAbs(diff2), FAbs(diff3))]

test_rate_of_change(s, delta, deg_diff) ==
    LET fail == IF ~deg_diff
                THEN [i \in Rows(s) |-> FGe(FAbs(Diff(s, 1)[i]), Num(delta))]
                ELSE [i \in Rows(s) |-> FGe(DegreeDifferencing(s)[i], Num(delta))]
    IN  SetWhere(Full(s, 0), fail, 4)

-----------------------------------------------------------------------------
(* Direct calls of the tests: the inputs *)

MaxLen == 4          \* longest series of a direct call
FlatLen == 7         \* longest series given to test_flatline
MaxSpike == 18       \* longest series of equal values with one outlier
MaxSus == 3          \* largest sus_flat tried
MaxFail == 5         \* largest fail_flat tried

\* all series of length at most n over the values V
SeqsUpTo(V, n) == UNION {[1..k -> V] : k \in 0..n}

\* n - 1 values 0 and the value v at position j
SpikeSeries(n, j, v) == [i \in 1..n |-> IF i = j THEN Num(v) ELSE Num(0)]

\* n - 2 values 0, then the value 1, then the value 5
NearSpikeSeries(n) ==
    [i \in 1..n |-> IF i = n THEN Num(5) ELSE IF i = n - 1 THEN Num(1) ELSE Num(0)]

\* the series of the flatline scenario: 1.0, 1.0, 1.0, 1.0, 1.0, 9.0
ScenarioSeries == <<Num(1), Num(1), Num(1), Num(1), Num(1), Num(9)>>

NoRun ==
    /\ df = <<>>
    /\ station_metadata = <<>>
    /\ report = <<>>
    /\ report_clean = <<>>
    /\ pidx = 0
    /\ pc = "direct"

RunVars == <<df, station_metadata, report, report_clean, pidx, pc>>

InitCall(Series) ==
    /\ data \in Series
    /\ args = <<>>
    /\ result = <<>>
    /\ called = "none"
    /\ NoRun

Return(name, a, r) ==
    /\ called = "none"
    /\ pc = "direct"
    /\ called' = name
    /\ args' = a
    /\ result' = r
    /\ UNCHANGED <<data, RunVars>>

(* test_missing *)
InitMissing == InitCall(SeqsUpTo({NaN, Num(0), Num(7)}, MaxLen))
CallMissing == Return("test_missing", <<>>, test_missing(data))
SpecMissing == InitMissing /\ [][CallMissing]_vars

(* test_mean_stdev *)
InitMeanStdev ==
    InitCall(SeqsUpTo({NaN, Num(0), Num(1), Num(5)}, MaxLen)
             \cup UNION {{SpikeSeries(n, 1, v), SpikeSeries(n, n, v)} :
                              n \in 1..MaxSpike, v \in {-3, 1}}
             \cup {NearSpikeSeries(n) : n \in 2..MaxSpike})
CallMeanStdev ==
    Return("test_mean_stdev", [num_stdevs |-> DefaultNumStdevs],
           test_mean_stdev(data, DefaultNumStdevs))
SpecMeanStdev == InitMeanStdev /\ [][CallMeanStdev]_vars

(* test_flatline *)
InitFlatline ==
    InitCall(SeqsUpTo({NaN, Num(1), Num(3)}, FlatLen) \cup {ScenarioSeries})
CallFlatline ==
    \E sus_flat \in 1..MaxSus, fail_flat \in 1..MaxFail, eps \in {DefaultEps, 150} :
        Return("test_flatline",
               [sus_flat |-> sus_flat, fail_flat |-> fail_flat, eps |-> eps],
               test_flatline(data, sus_flat, fail_flat, eps))
SpecFlatline == InitFlatline /\ [][CallFlatline]_vars

(* test_feasible_range *)
InitRange == InitCall(SeqsUpTo({NaN, Num(-1), Num(0), Num(30), Num(35)}, MaxLen))
CallFeasibleRange ==
    \E min_value \in {0, 30}, max_value \in {0, 30}, critical \in BOOLEAN :
        Return("test_feasible_range",
               [min_value |-> min_value, max_value |-> max_value,
                critical |-> critical],
               test_feasible_range(data, min_value, max_value, critical))
SpecRange == InitRange /\ [][CallFeasibleRange]_vars

-----------------------------------------------------------------------------
(* LongTerm.run *)

\* PARAMS, the parameters run is called with
params == <<"hm0", "mdir", "tm02">>

\* tests = ['missing', '15', '16', '19', '20']
tests == <<"missing", "15", "16", "19", "20">>

\* Python's  sub in s  on strings
Contains(sub, s) ==
    \E k \in 1..(Len(s) - Len(sub) + 1) : SubSeq(s, k, k + Len(sub) - 1) = sub

\* param_meta_cols = [x for x in station_metadata.index if param in x]
ParamMetaCols(param) == {x \in DOMAIN station_metadata : Contains(param, x)}

\* ~mask
Not(mask) == [i \in Rows(mask) |-> ~mask[i]]

\* 1. Mask data from archive which failed QC: failed_qc
FailedQc(param) ==
    IF (param \o "_qc") \in DOMAIN df
    THEN [r \in Rows(df[param]) |-> df[param \o "_qc"][r] > 3]
    ELSE Full(df[param], FALSE)

RECURSIVE BoolIndexUpTo(_, _, _)
BoolIndexUpTo(s, mask, n) ==
    IF n = 0 THEN <<>>
    ELSE IF mask[n] THEN Append(BoolIndexUpTo(s, mask, n - 1), s[n])
         ELSE BoolIndexUpTo(s, mask, n - 1)

\* s[mask]: the values of s at the True positions of mask, in order
BoolIndex(s, mask) == BoolIndexUpTo(s, mask, Len(s))

\* number of True among mask[1..i]
Rank(mask, i) == Cardinality({j \in 1..i : mask[j]})

\* Faulty variant: np.putmask, the value at position i is new[i], new repeated.
PutMaskRepeating(col, mask, new) ==
    [i \in Rows(col) |->
        IF mask[i] THEN new[((i - 1) % Len(new)) + 1] ELSE col[i]]

\* col[mask] = new, new an array with one value per True of mask, placed in order
PutMask(col, mask, new) ==
    [i \in Rows(col) |-> IF mask[i] THEN new[Rank(mask, i)] ELSE col[i]]

\* report[name] = col
Assign(rep, name, col) ==
    [c \in DOMAIN rep \cup {name} |-> IF c = name THEN col ELSE rep[c]]

\* max(a, b)
Max2(a, b) == IF a >= b THEN a ELSE b

\* Faulty variant: the maximum leaves out the missing column.
RowMaxWithoutMissing(rep, param) ==
    [r \in Rows(rep[param]) |->
        Max2(rep[param \o "_15"][r],
        Max2(rep[param \o "_16"][r],
        Max2(rep[param \o "_19"][r], rep[param \o "_20"][r])))]

\* report[param_test_cols].max(axis=1)
RowMax(rep, param) ==
    [r \in Rows(rep[param]) |->
        Max2(rep[param \o "_missing"][r],
        Max2(rep[param \o "_15"][r],
        Max2(rep[param \o "_16"][r],
        Max2(rep[param \o "_19"][r], rep[param \o "_20"][r]))))]

\* the defaults run uses when the flatline keys are absent
RunSusFlat == 3
RunFailFlat == 5

\* 2.3: sus_flat and fail_flat of the parameter
SusFlatOf(param, param_meta_cols) ==
    IF (param \o "_flatsuspect") \in param_meta_cols
    THEN station_metadata[param \o "_flatsuspect"] ELSE RunSusFlat
FailFlatOf(param, param_meta_cols) ==
    IF (param \o "_flatfail") \in param_meta_cols
    THEN station_metadata[param \o "_flatfail"] ELSE RunFailFlat

\* Faulty variant: one key of the three is enough.
HasSomeT19Meta(param, param_meta_cols) ==
    {param \o "_min", param \o "_max", param \o "_critical"} \cap param_meta_cols # {}

\* 2.4: sum([1 for x in t19_meta if x in param_meta_cols]) == 3
HasT19Meta(param, param_meta_cols) ==
    {param \o "_min", param \o "_max", param \o "_critical"} \subseteq param_meta_cols

\* 2.4 test 19: the new column, from the column col of zeros
Column19(param, param_meta_cols, col, keep, d) ==
    IF HasT19Meta(param, param_meta_cols)
    THEN PutMask(col, keep,
                 test_feasible_range(d, station_metadata[param \o "_min"],
                                     station_metadata[param \o "_max"],
                                     station_metadata[param \o "_critical"]))
    ELSE SetWhere(col, keep, 0)

\* 2.5: the call of test 20 for the parameter
RateOfChangeFor(param, d, delta_meta) ==
    IF Contains("dir", param)
    THEN test_rate_of_change(d, delta_meta, TRUE)
    ELSE test_rate_of_change(d, delta_meta, FALSE)

\* 2.5 test 20: the new column, from the column col of zeros
Column20(param, param_meta_cols, col, keep, d) ==
    IF (param \o "_roc") \in param_meta_cols
    THEN PutMask(col, keep,
                 RateOfChangeFor(param, d, station_metadata[param \o "_roc"]))
    ELSE SetWhere(col, keep, 0)

\* the body of the loop  for param in params  applied to the report rep
LoopBody(rep, param) ==
    LET param_meta_cols == ParamMetaCols(param)
        keep == Not(FailedQc(param))
        d == BoolIndex(df[param], keep)
        zero == Full(df[param], 0)
        r0 == Assign(Assign(Assign(Assign(Assign(rep,
                  param \o "_missing", zero), param \o "_15", zero),
                  param \o "_16", zero), param \o "_19", zero),
                  param \o "_20", zero)
        r1 == Assign(r0, param \o "_missing",
                     PutMask(r0[param \o "_missing"], keep, test_missing(d)))
        r2 == Assign(r1, param \o "_15",
                     PutMask(r1[param \o "_15"], keep,
                             test_mean_stdev(d, DefaultNumStdevs)))
        r3 == Assign(r2, param \o "_16",
                     PutMask(r2[param \o "_16"], keep,
                             test_flatline(d, SusFlatOf(param, param_meta_cols),
                                           FailFlatOf(param, param_meta_cols),
                                           DefaultEps)))
        r4 == Assign(r3, param \o "_19",
                     Column19(param, param_meta_cols, r3[param \o "_19"], keep, d))
        r5 == Assign(r4, param \o "_20",
                     Column20(param, param_meta_cols, r4[param \o "_20"], keep, d))
    IN  Assign(r5, param \o "_qc", RowMax(r5, param))

\* the keys the loop body reads from param_meta
LookedUp(param, param_meta_cols) ==
    {k \in {param \o "_flatsuspect", param \o "_flatfail", param \o "_roc"} :
        k \in param_meta_cols}
    \cup (IF HasT19Meta(param, param_meta_cols)
          THEN {param \o "_min", param \o "_max", param \o "_critical"} ELSE {})

\* param_meta is station_metadata[param_meta_cols], or None without any key:
\* reading a key raises when param_meta is None or does not hold the key
Raises(param) ==
    LET param_meta_cols == ParamMetaCols(param)
    IN  \E k \in LookedUp(param, param_meta_cols) :
            param_meta_cols = {} \/ k \notin param_meta_cols

\* one iteration of  for param in params
ProcessParam ==
    /\ pc = "loop"
    /\ pidx <= Len(params)
    /\ IF Raises(params[pidx])
       THEN pc' = "error" /\ UNCHANGED <<report, pidx>>
       ELSE /\ report' = LoopBody(report, params[pidx])
            /\ pidx' = pidx + 1
            /\ pc' = pc
    /\ UNCHANGED <<report_clean, df, station_metadata,
                   data, args, result, called>>

\* Faulty variant: the flag is raised to 4 and a worse flag is kept.
ForceFailKeepWorse(rep, name) ==
    Assign(rep, name, [r \in Rows(rep[name]) |->
                          IF rep["hm0_19"][r] = 4 THEN Max2(rep[name][r], 4)
                          ELSE rep[name][r]])

\* report[name][report['hm0_19'] == 4] = 4
ForceFail(rep, name) ==
    Assign(rep, name, SetWhere(rep[name], [r \in Rows(rep[name]) |->
                                              rep["hm0_19"][r] = 4], 4))

\* If hm0 fails test 19, both mdir and tm02 are flagged as failing QC
Propagate ==
    /\ pc = "loop"
    /\ pidx > Len(params)
    /\ report' = ForceFail(ForceFail(report, "mdir_qc"), "tm02_qc")
    /\ pc' = "project"
    /\ UNCHANGED <<pidx, report_clean, df, station_metadata,
                   data, args, result, called>>

\* clean_cols = params + [x+'_qc' for x in params]
clean_cols ==
    {params[k] : k \in 1..Len(params)} \cup {params[k] \o "_qc" : k \in 1..Len(params)}

\* report_clean = report[clean_cols]; return report, report_clean
Project ==
    /\ pc = "project"
    /\ report_clean' = [c \in clean_cols |-> report[c]]
    /\ pc' = "done"
    /\ UNCHANGED <<pidx, report, df, station_metadata,
                   data, args, result, called>>

Next == ProcessParam \/ Propagate \/ Project

(* the inputs of run *)

NRows == 3           \* number of observations of the input table

ParamSet == {params[k] : k \in 1..Len(params)}

\* the parameter of a prior flag column
BaseOf(name) == CHOOSE p \in ParamSet : p \o "_qc" = name

\* the table with raw columns c and prior flag columns q (<<>>: no such column)
Frame(c, q) ==
    [name \in ParamSet \cup {p \o "_qc" : p \in {x \in ParamSet : q[x] # <<>>}} |->
        IF name \in ParamSet THEN c[name] ELSE q[BaseOf(name)]]

Frames(Vals, Priors) ==
    {Frame(c, q) : c \in [ParamSet -> [1..NRows -> Vals]], q \in [ParamSet -> Priors]}

\* report = df[params]
InitRun(Tables, Metas) ==
    /\ df \in Tables
    /\ station_metadata \in Metas
    /\ report = [c \in ParamSet |-> df[c]]
    /\ report_clean = <<>>
    /\ pidx = 1
    /\ pc = "loop"
    /\ data = <<>>
    /\ args = <<>>
    /\ result = <<>>
    /\ called = "none"

\* the keys run looks up for a parameter
KeySuffixes == {"_min", "_max", "_critical", "_roc", "_flatsuspect", "_flatfail"}
KeysOf(p) == {p \o x : x \in KeySuffixes}

\* a station metadata table with every key of every parameter: feasible range
\* [0, max_value], critical for the parameters in Crit, rate of change 20,
\* flatline lengths 2 and 3
FullMeta(max_value, Crit) ==
    [k \in UNION {KeysOf(p) : p \in ParamSet} |->
        IF Contains("_min", k) THEN 0
        ELSE IF Contains("_max", k) THEN max_value
        ELSE IF Contains("_critical", k) THEN (\E p \in Crit : Contains(p, k))
        ELSE IF Contains("_roc", k) THEN 20
        ELSE IF Contains("_flatsuspect", k) THEN 2
        ELSE 3]

\* the table m without the keys in Drop
Without(m, Drop) == [k \in DOMAIN m \ Drop |-> m[k]]

\* a constant column
ConstCol(v) == [r \in 1..NRows |-> v]

\* tables in which parameter p has the raw column c and the prior flag column q
\* and the other parameters the constant column 35 and no prior flag column
FramesOne(Vals, Priors) ==
    {Frame([x \in ParamSet |-> IF x = p THEN c ELSE ConstCol(Num(35))],
           [x \in ParamSet |-> IF x = p THEN q ELSE <<>>]) :
        p \in ParamSet, c \in [1..NRows -> Vals], q \in Priors}

(* Spec: every combination of raw columns of the three parameters *)
Init ==
    InitRun(Frames({NaN, Num(35)}, {<<>>}),
            {FullMeta(30, {"hm0", "tm02"}),
             FullMeta(30, {"mdir"}),
             FullMeta(40, {"hm0"}),
             Without(FullMeta(30, {"hm0"}), KeysOf("mdir") \cup KeysOf("tm02"))})

Spec == Init /\ [][Next]_vars

(* SpecMask: one parameter with every raw column and every prior flag column
   over 3 (kept), 4 and 8 (masked) *)
InitMask ==
    InitRun(FramesOne({NaN, Num(1), Num(35)},
                      {<<>>} \cup [1..NRows -> {3, 4, 8}]),
            {FullMeta(30, {"hm0"})})

SpecMask == InitMask /\ [][Next]_vars

(* SpecMeta: every subset of the keys of one parameter absent *)
InitMeta ==
    InitRun(FramesOne({Num(1), Num(35)}, {<<>>}),
            {Without(FullMeta(30, Crit), Drop) :
                Crit \in {{}, ParamSet},
                Drop \in UNION {SUBSET KeysOf(p) : p \in ParamSet}})

SpecMeta == InitMeta /\ [][Next]_vars

-----------------------------------------------------------------------------
(* test_rate_of_change, called directly and as run calls it *)

InitRoc == InitCall(SeqsUpTo({NaN, Num(10), Num(190), Num(350)}, MaxLen))

CallRateOfChange ==
    \E delta \in {3, 20, 21, 340}, deg_diff \in BOOLEAN :
        Return("test_rate_of_change", [delta |-> delta, deg_diff |-> deg_diff],
               test_rate_of_change(data, delta, deg_diff))

CallRateOfChangeFor ==
    \E param \in {"hm0", "mdir", "tm02", "dirp", "pdir2", "dpd"},
       delta \in {3, 20, 21, 340} :
        Return("run_test_20", [param |-> param, delta |-> delta],
               RateOfChangeFor(param, data, delta))

NextRoc == CallRateOfChange \/ CallRateOfChangeFor

SpecRoc == InitRoc /\ [][NextRoc]_vars

-----------------------------------------------------------------------------
(* Properties of run *)

\* the parameters whose loop iteration is over
Processed == {params[k] : k \in 1..(pidx - 1)}

\* the five per-test columns of parameter p
TestCols(p) == {p \o "_" \o tests[k] : k \in 1..Len(tests)}

\* p_qc is at least every per-test flag of row r and equals one of them
IsMaxOfTests(p, r) ==
    /\ \A c \in TestCols(p) : report[p \o "_qc"][r] >= report[c][r]
    /\ \E c \in TestCols(p) : report[p \o "_qc"][r] = report[c][r]

\* row r is masked for p: a prior p_qc column exists and its flag is above 3
Masked(p, r) == (p \o "_qc") \in DOMAIN df /\ df[p \o "_qc"][r] > 3

\* the values of p at the unmasked rows, in order
Unmasked(p) == BoolIndex(df[p], [r \in 1..NRows |-> ~Masked(p, r)])

\* the position of the unmasked row r among the unmasked rows
PlaceOf(p, r) == Cardinality({j \in 1..r : ~Masked(p, j)})

\* the value of a key of the station metadata, or a default when it is absent
MetaOr(key, default) ==
    IF key \in DOMAIN station_metadata THEN station_metadata[key] ELSE default

\* what each test returns for the unmasked values of p, the metadata resolved
TestResult(p, t) ==
    CASE t = "missing" -> test_missing(Unmasked(p))
      [] t = "15" -> test_mean_stdev(Unmasked(p), 4)
      [] t = "16" -> test_flatline(Unmasked(p), MetaOr(p \o "_flatsuspect", 3),
                                   MetaOr(p \o "_flatfail", 5), 1)
      [] t = "19" -> IF {p \o "_min", p \o "_max", p \o "_critical"}
                            \subseteq DOMAIN station_metadata
                     THEN test_feasible_range(Unmasked(p), station_metadata[p \o "_min"],
                                              station_metadata[p \o "_max"],
                                              station_metadata[p \o "_critical"])
                     ELSE Full(Unmasked(p), 0)
      [] t = "20" -> IF (p \o "_roc") \in DOMAIN station_metadata
                     THEN test_rate_of_change(Unmasked(p), station_metadata[p \o "_roc"],
                                              p = "mdir")
                     ELSE Full(Unmasked(p), 0)

\* the column of test t of p holds 0 at the masked rows and, at the unmasked
\* rows, the result of the test over the unmasked values, in order
ColumnAsTested(p, t) ==
    LET res == TestResult(p, t)
    IN  \A r \in 1..NRows :
            report[p \o "_" \o t][r] =
                IF Masked(p, r) THEN 0 ELSE res[PlaceOf(p, r)]

\* C1 as stated: in the returned Detail Report, for every parameter and row,
\* p_qc is at least each of the five per-test flags and equals their maximum.
C1_QcIsMaxInReturnedReport ==
    pc = "done" =>
        \A p \in ParamSet : \A r \in 1..NRows : IsMaxOfTests(p, r)

\* C1 amended: p_qc equals the maximum of the five per-test flags when the
\* parameter is coalesced; in the returned Detail Report this still holds for
\* hm0 at every row and for mdir and tm02 at the rows where hm0_19 is not 4,
\* and at the rows where hm0_19 is 4, mdir_qc and tm02_qc are 4 whatever their
\* per-test flags are.
C1_QcIsMaxUnlessForced ==
    /\ pc = "loop" =>
           \A p \in Processed : \A r \in 1..NRows : IsMaxOfTests(p, r)
    /\ pc \in {"project", "done"} =>
           \A p \in ParamSet : \A r \in 1..NRows :
               IF p \in {"mdir", "tm02"} /\ report["hm0_19"][r] = 4
               THEN report[p \o "_qc"][r] = 4
               ELSE IsMaxOfTests(p, r)

\* C1 witness: a returned report with a row where hm0_19 is 4, tm02 is absent
\* (flag 8, above tm02_qc) and every flag of mdir is 0 (below mdir_qc), and
\* another row where mdir_qc is the maximum 8.
C1_Witness ==
    /\ pc = "done"
    /\ \E r \in 1..NRows :
           /\ report["hm0_19"][r] = 4
           /\ report["tm02_missing"][r] = 8
           /\ report["tm02_qc"][r] = 4
           /\ \A c \in TestCols("mdir") : report[c][r] = 0
           /\ report["mdir_qc"][r] = 4
    /\ \E r \in 1..NRows :
           /\ report["hm0_19"][r] # 4
           /\ report["mdir_qc"][r] = 8

\* C2: after the loop, wherever hm0_19 is 4, mdir_qc and tm02_qc are 4, in the
\* Detail Report and in the Clean Report; the propagation comes after the
\* last parameter and before the Clean Report is projected.
C2_Hm0FailPropagates ==
    /\ pc \in {"project", "done"} =>
           /\ pidx > Len(params)
           /\ \A r \in 1..NRows :
                  report["hm0_19"][r] = 4 =>
                      report["mdir_qc"][r] = 4 /\ report["tm02_qc"][r] = 4
    /\ pc # "done" => DOMAIN report_clean = {}
    /\ pc = "done" =>
           /\ DOMAIN report_clean = clean_cols
           /\ \A c \in clean_cols : report_clean[c] = report[c]
           /\ \A r \in 1..NRows :
                  report["hm0_19"][r] = 4 =>
                      report_clean["mdir_qc"][r] = 4 /\ report_clean["tm02_qc"][r] = 4

\* C2 witness: both reports returned, with a row where hm0_19 is 4, mdir is
\* absent (its own flags give 8) and tm02 fails its own range test.
C2_Witness ==
    /\ pc = "done"
    /\ \E r \in 1..NRows :
           /\ report["hm0_19"][r] = 4
           /\ report["mdir_missing"][r] = 8
           /\ report["tm02_19"][r] = 4
           /\ report_clean["mdir_qc"][r] = 4
           /\ report_clean["tm02_qc"][r] = 4
    /\ \E r \in 1..NRows :
           /\ report["hm0_19"][r] = 0
           /\ report_clean["mdir_qc"][r] # 4

\* C3: a row is masked exactly when a prior p_qc column holds a flag above 3
\* there; a masked row keeps 0 in the five per-test columns; the result of
\* each test over the unmasked values is written in order to the unmasked
\* rows; every column has one row per observation.
C3_MaskedRowsKeepZero ==
    \A p \in Processed :
        /\ \A c \in TestCols(p) \cup {p, p \o "_qc"} : Len(report[c]) = NRows
        /\ \A r \in 1..NRows :
               Masked(p, r) => \A c \in TestCols(p) : report[c][r] = 0
        /\ \A k \in 1..Len(tests) : ColumnAsTested(p, tests[k])

\* C3 witness: a processed parameter with a masked first row, whose later
\* unmasked rows hold an absent value and then a present one.
C3_Witness ==
    \E p \in Processed :
        /\ Masked(p, 1) /\ ~Masked(p, 2) /\ ~Masked(p, 3)
        /\ report[p \o "_missing"] = <<0, 8, 0>> \o [i \in 1..(NRows - 3) |-> 0]
        /\ report[p \o "_19"][3] = 4

\* C8: run goes through whatever keys are absent: test 19 of p is all 0 without
\* one of p_min, p_max, p_critical; test 20 is all 0 without p_roc; the
\* flatline test uses 3 and 5 for an absent length; the other tests run as
\* with full metadata, and both reports are returned.
C8_MissingMetadataIsNoOp ==
    /\ pc # "error"
    /\ pc = "done" => DOMAIN report_clean = clean_cols
    /\ \A p \in Processed :
           /\ ~({p \o "_min", p \o "_max", p \o "_critical"}
                    \subseteq DOMAIN station_metadata)
                  => \A r \in 1..NRows : report[p \o "_19"][r] = 0
           /\ (p \o "_roc") \notin DOMAIN station_metadata
                  => \A r \in 1..NRows : report[p \o "_20"][r] = 0
           /\ \A k \in 1..Len(tests) : ColumnAsTested(p, tests[k])

\* C8 witness: run returned for a table without any key of mdir, whose values
\* jump by more than 3 and leave [0, 30]; tests 19 and 20 of mdir are all 0
\* and the flatline test of hm0, which has its keys, still flags.
C8_Witness ==
    /\ pc = "done"
    /\ \A k \in DOMAIN station_metadata : ~Contains("mdir", k)
    /\ df["mdir"][1] = Num(1) /\ df["mdir"][2] = Num(35) /\ df["mdir"][3] = Num(35)
    /\ \A r \in 1..NRows : report["mdir_19"][r] = 0 /\ report["mdir_20"][r] = 0
    /\ report["hm0_16"][2] = 3
    /\ report["hm0_19"][2] = 4

-----------------------------------------------------------------------------
(* Properties of the tests *)

\* the flatline condition of length L at position i: L values up to i, all
\* present, the summed distance of value i to the L - 1 values before it below
\* eps * (L - 1), eps in hundredths
FlatCond(i, L, eps) ==
    /\ i >= L
    /\ \A j \in (i - L + 1)..i : ~IsNaN(data[j])
    /\ 100 * SumOver([k \in 1..(L - 1) |-> Abs(data[i][1] - data[i - k][1])],
                     1..(L - 1)) < eps * (L - 1)

\* positions a..a+F-1 hold F identical values, after a value and before a
\* value that both differ from them by more than eps
IsRun(a, F, eps) ==
    /\ a >= 2
    /\ a + F <= Len(data)
    /\ \A j \in (a - 1)..(a + F) : ~IsNaN(data[j])
    /\ \A j \in a..(a + F - 1) : data[j] = data[a]
    /\ 100 * Abs(data[a - 1][1] - data[a][1]) > eps
    /\ 100 * Abs(data[a + F][1] - data[a][1]) > eps

ScenarioCall ==
    /\ called = "test_flatline"
    /\ data = ScenarioSeries
    /\ args = [sus_flat |-> 3, fail_flat |-> 5, eps |-> 1]

\* C4 as stated: the series 1,1,1,1,1,9 with eps=0.01, sus_flat=3, fail_flat=5
\* is flagged 0,0,0,0,4,0.
C4_ScenarioAsStated == ScenarioCall => result = <<0, 0, 0, 0, 4, 0>>

\* C4 amended: that series is flagged 0,0,3,3,4,0: the third and fourth value
\* each complete three values within the tolerance and are suspect.
C4_ScenarioFlags == ScenarioCall => result = <<0, 0, 3, 3, 4, 0>>

\* C4 witness: the call of the scenario has returned, with a suspect and a
\* failing position.
C4_Witness == ScenarioCall /\ result[3] = 3 /\ result[5] = 4 /\ result[6] = 0

\* C5 as stated: for fail_flat >= sus_flat >= 2, every position of a run of
\* exactly fail_flat identical values between differing values is flagged 4,
\* and at most fail_flat - sus_flat earlier positions are flagged 3.
C5_WholeRunFails ==
    (called = "test_flatline" /\ args.fail_flat >= args.sus_flat /\ args.sus_flat >= 2) =>
        \A a \in 1..Len(data) :
            IsRun(a, args.fail_flat, args.eps) =>
                /\ \A j \in a..(a + args.fail_flat - 1) : result[j] = 4
                /\ Cardinality({j \in 1..(a - 1) : result[j] = 3})
                       <= args.fail_flat - args.sus_flat

\* C5 amended: for fail_flat >= sus_flat >= 2 and such a run, the last position
\* of the run is flagged 4, the fail_flat - sus_flat positions before it are
\* flagged 3 or 4 and the value after the run 0; when the value before the run
\* differs from it by eps * (fail_flat - 1) or more, the first sus_flat - 1
\* positions of the run are flagged 0 and the next fail_flat - sus_flat exactly
\* 3. At every position the flag is 4 where the fail condition holds, 3 where
\* only the suspect condition holds, and 0 elsewhere.
C5_RunEndFails ==
    (called = "test_flatline" /\ args.fail_flat >= args.sus_flat /\ args.sus_flat >= 2) =>
        LET S == args.sus_flat
            F == args.fail_flat
        IN  /\ \A i \in 1..Len(data) :
                   result[i] = IF FlatCond(i, F, args.eps) THEN 4
                               ELSE IF FlatCond(i, S, args.eps) THEN 3 ELSE 0
            /\ \A a \in 1..Len(data) :
                   IsRun(a, F, args.eps) =>
                       /\ result[a + F - 1] = 4
                       /\ \A j \in (a + S - 1)..(a + F - 2) : result[j] \in {3, 4}
                       /\ result[a + F] = 0
                       /\ 100 * Abs(data[a - 1][1] - data[a][1]) >= args.eps * (F - 1) =>
                              /\ \A j \in a..(a + S - 2) : result[j] = 0
                              /\ \A j \in (a + S - 1)..(a + F - 2) : result[j] = 3

\* C5 witness: a run of five values 1 between two values 3, sus_flat=3 and
\* fail_flat=5: two run positions pass, two are suspect, the last fails.
C5_Witness ==
    /\ called = "test_flatline"
    /\ args = [sus_flat |-> 3, fail_flat |-> 5, eps |-> 1]
    /\ data = <<Num(3), Num(1), Num(1), Num(1), Num(1), Num(1), Num(3)>>
    /\ IsRun(2, 5, 1)
    /\ result = <<0, 0, 0, 3, 3, 4, 0>>

\* C6: test_feasible_range flags a value below min_value or above max_value with
\* 4 when critical and 3 when not, and everything else, absent values included,
\* with 0; so the critical flags are at least the non-critical ones, and 35 with
\* the range [0, 30] is flagged 4 when critical and 3 when not.
C6_FeasibleRangeFlags ==
    called = "test_feasible_range" =>
        /\ Len(result) = Len(data)
        /\ \A i \in 1..Len(data) :
               /\ result[i] =
                      IF /\ ~IsNaN(data[i])
                         /\ \/ data[i][1] < args.min_value
                            \/ data[i][1] > args.max_value
                      THEN (IF args.critical THEN 4 ELSE 3)
                      ELSE 0
               /\ args.critical =>
                      result[i] >= test_feasible_range(data, args.min_value,
                                                       args.max_value, FALSE)[i]
               /\ (data[i] = Num(35) /\ args.min_value = 0 /\ args.max_value = 30) =>
                      result[i] = IF args.critical THEN 4 ELSE 3

\* C6 witness: a critical call with the range [0, 30] on a series with 35, an
\* absent value and a value below the range.
C6_Witness ==
    /\ called = "test_feasible_range"
    /\ args = [min_value |-> 0, max_value |-> 30, critical |-> TRUE]
    /\ data = <<Num(35), NaN, Num(-1), Num(30)>>
    /\ result = <<4, 0, 4, 0>>

\* the names of the parameter set of the direct calls that contain "dir"
DirNames == {"mdir", "dirp", "pdir2"}

\* the difference of the claim between the previous value a and the value b
ClaimedDifference(a, b, deg_diff) ==
    IF deg_diff
    THEN LET d1 == Abs(b - a)
             d2 == Abs(b + 360 - a)
             d3 == Abs(b - (a + 360))
         IN  CHOOSE m \in {d1, d2, d3} : \A x \in {d1, d2, d3} : m <= x
    ELSE Abs(b - a)

RocFlags(delta, deg_diff) ==
    [i \in 1..Len(data) |->
        IF /\ i > 1
           /\ ~IsNaN(data[i])
           /\ ~IsNaN(data[i - 1])
           /\ ClaimedDifference(data[i - 1][1], data[i][1], deg_diff) >= delta
        THEN 4 ELSE 0]

\* C7: test_rate_of_change flags position i > 1 with 4 exactly when the
\* difference of value i and the value before it is at least delta, and the
\* first position with 0; the difference is the smallest of |b-a|, |b+360-a|,
\* |b-(a+360)| with deg_diff, which run sets exactly for the names containing
\* "dir", and |b-a| without.
C7_RateOfChangeFlags ==
    /\ called = "test_rate_of_change" =>
           /\ Len(result) = Len(data)
           /\ \A i \in 1..Len(data) :
                  result[i] = RocFlags(args.delta, args.deg_diff)[i]
    /\ called = "run_test_20" =>
           /\ Len(result) = Len(data)
           /\ \A i \in 1..Len(data) :
                  result[i] = RocFlags(args.delta, args.param \in DirNames)[i]

\* C7 witness: run's call for mdir on 350 then 10 with delta 20: the
\* difference is 20 and the second value fails.
C7_Witness ==
    /\ called = "run_test_20"
    /\ args = [param |-> "mdir", delta |-> 20]
    /\ data = <<Num(350), Num(10)>>
    /\ result = <<0, 4>>

\* C9: test_missing returns an array as long as the series, 8 exactly where
\* the value is absent and 0 elsewhere.
C9_MissingFlags ==
    called = "test_missing" =>
        /\ Len(result) = Len(data)
        /\ \A i \in 1..Len(data) : (result[i] = 8) <=> IsNaN(data[i])
        /\ \A i \in 1..Len(data) : (result[i] = 0) <=> ~IsNaN(data[i])

\* C9 witness: a call on a series with absent and present values.
C9_Witness ==
    /\ called = "test_missing"
    /\ data = <<NaN, Num(7), NaN, Num(0)>>
    /\ result = <<8, 0, 8, 0>>

\* C10: with num_stdevs=4 a value is flagged 4 exactly when it is present,
\* there are n >= 2 present values and it lies more than 4 sample standard
\* deviations (divisor n - 1) from their mean; so a series with at most 17
\* present values is flagged 0 everywhere, and so are absent values.
C10_MeanStdevFlags ==
    called = "test_mean_stdev" =>
        /\ Len(result) = Len(data)
        /\ \A i \in 1..Len(data) :
               result[i] =
                   IF /\ ~IsNaN(data[i])
                      /\ Count(data) >= 2
                      /\ (Count(data) - 1) * Dev(data, i) * Dev(data, i)
                             > 16 * SumSqDev(data)
                   THEN 4 ELSE 0
        /\ Count(data) <= 17 => \A i \in 1..Len(data) : result[i] = 0
        /\ \A i \in 1..Len(data) : IsNaN(data[i]) => result[i] = 0

\* C10 witness: 16 values 0 and one value 1, the most extreme series of 17
\* values, is flagged 0 everywhere.
C10_Witness ==
    /\ called = "test_mean_stdev"
    /\ data = SpikeSeries(17, 17, 1)
    /\ \A i \in 1..17 : result[i] = 0

====
